---- MODULE Spec2Model ----
(***************************************************************************)
(* The mlarena SDK: connect() (src/mlarena/__init__.py) and MLArenaClient  *)
(* (src/mlarena/client.py) as a state machine.  One client object, the     *)
(* position of a running submit() call and its locals, the resources that  *)
(* call owns, and what the last operation asked of the network and gave    *)
(* back to its caller.  The HTTP server, the file system and the Python    *)
(* runtime are the environment: their answers are drawn from small sets.   *)
(***************************************************************************)
EXTENDS Integers, Sequences, FiniteSets, TLC

VARIABLES
    connected,          \* a client object exists (connect() returned one)
    api_key,            \* the api_key argument of the last connect() call
    key_id,             \* MLArenaClient._key_id
    key_pass,           \* MLArenaClient._key_pass
    base_url,           \* MLArenaClient._base_url
    last_agent_id,      \* MLArenaClient._last_agent_id
    last_competition,   \* MLArenaClient._last_competition
    pc,                 \* position of the running submit(): idle, stage, post, finally
    competition,        \* submit(): argument
    agent,              \* submit(): argument
    files,              \* submit(): argument
    agent_name,         \* submit(): argument
    multipart_files,    \* submit(): local, the staged (filename, handle) pairs
    tmp_dir,            \* submit(): local, the temporary directory or None
    pending,            \* submit(): the return value or exception travelling through finally
    handles,            \* per file handle the operation called last opened: [open, closes]
    dirs,               \* per directory the operation called last made: [live, removes]
    lastOp,             \* the operation called last and its arguments' shape
    lastCall,           \* the HTTP request the last operation issued (NoCall if none)
    resp,               \* the HTTP reply the last operation received (NoResp if none)
    lastResult,         \* what the last operation returned or raised
    okSubmit,           \* history: the last submit() that returned normally
    tab_in,             \* tabular conversion: the decoded JSON handed to _to_dataframe
    tab_out             \* tabular conversion: what _to_dataframe returned

vars ==
    <<connected, api_key, key_id, key_pass, base_url, last_agent_id, last_competition,
      pc, competition, agent, files, agent_name, multipart_files, tmp_dir, pending,
      handles, dirs, lastOp, lastCall, resp, lastResult, okSubmit, tab_in, tab_out>>

clientVars == <<connected, api_key, key_id, key_pass, base_url>>
sessionVars == <<last_agent_id, last_competition>>
submitVars == <<pc, competition, agent, files, agent_name, multipart_files, tmp_dir, pending>>
resourceVars == <<handles, dirs>>
tabVars == <<tab_in, tab_out>>

-----------------------------------------------------------------------------
(* Bounds of the model *)

MaxKeyLen == 3      \* longest credential string tried
MaxFiles == 2       \* longest files= list tried
MaxCols == 2        \* most columns (and most values in a row) of a table
MaxRows == 2        \* most rows of a table

-----------------------------------------------------------------------------
(* Values *)

None == "<None>"                    \* Python's None, where a string may stand

SeqsUpTo(S, n) == UNION {[1..m -> S] : m \in 0..n}

Max(S) == CHOOSE x \in S : \A y \in S : y <= x

Min(a, b) == IF a <= b THEN a ELSE b

\* Python truthiness of an optional string: None and "" are falsy.
Truthy(x) == x # None /\ x # ""

\* Python's `a or b`.
Or(a, b) == IF Truthy(a) THEN a ELSE b

-----------------------------------------------------------------------------
(* connect(): src/mlarena/__init__.py *)

Chars == {"k", "p", ":"}                 \* the characters of a credential string

\* The api_key argument: Python None, or a string (a sequence of characters).
NoKey == [none |-> TRUE, s |-> <<>>]

Str(s) == [none |-> FALSE, s |-> s]

ApiKeys == {NoKey} \cup {Str(s) : s \in SeqsUpTo(Chars, MaxKeyLen)}

\* The credential strings the session runs start from: malformed ones and one good.
SessionKeys == {NoKey, Str(<<"k">>), Str(<<":", "p">>), Str(<<"k", ":", "p">>)}

BaseUrls == {<<"h">>, <<"h", "/">>, <<"h", "/", "/">>}

\* `not api_key`
NotKey(k) == k.none \/ k.s = <<>>

\* `":" in api_key`
HasColon(s) == \E i \in 1..Len(s) : s[i] = ":"

\* A variant of split that cuts at the last colon, as str.rsplit(":", 1) would.
splitLast(s) ==
    LET i == Max({j \in 1..Len(s) : s[j] = ":"})
    IN  <<SubSeq(s, 1, i - 1), SubSeq(s, i + 1, Len(s))>>

\* str.split(":", 1) of a string holding a colon: cut at the first one.
split(s) ==
    LET i == CHOOSE j \in 1..Len(s) : s[j] = ":" /\ \A h \in 1..(j - 1) : s[h] # ":"
    IN  <<SubSeq(s, 1, i - 1), SubSeq(s, i + 1, Len(s))>>

\* str.rstrip("/")
RECURSIVE rstrip(_)
rstrip(u) ==
    IF u # <<>> /\ u[Len(u)] = "/" THEN rstrip(SubSeq(u, 1, Len(u) - 1)) ELSE u

AuthFormatMsg == "Invalid api_key format. Expected 'key_id:key_pass'."

AuthEmptyMsg == "Both key_id and key_pass must be non-empty."

\* connect(api_key, base_url): the exception it raises, or the client's fields.
connect(k, url) ==
    IF NotKey(k) \/ ~HasColon(k.s)
    THEN [ok |-> FALSE, msg |-> AuthFormatMsg, key_id |-> <<>>, key_pass |-> <<>>,
          base_url |-> <<>>]
    ELSE LET p == split(k.s)
         IN  IF p[1] = <<>> \/ p[2] = <<>>
             THEN [ok |-> FALSE, msg |-> AuthEmptyMsg, key_id |-> <<>>,
                   key_pass |-> <<>>, base_url |-> <<>>]
             ELSE [ok |-> TRUE, msg |-> None, key_id |-> p[1], key_pass |-> p[2],
                   base_url |-> rstrip(url)]

-----------------------------------------------------------------------------
(* The environment: HTTP replies, the file system, the Python runtime *)

Statuses == {200, 201, 202, 401, 403, 404, 500}

AgentIds == {"", "A1"}              \* agent identifiers a server may return

Competitions == {"comp1", "comp2"}

ServerError == "no such comp"       \* the text of a reply's "error" field

\* A reply body.  kind "obj": a JSON object with an optional "error" and an optional
\* "agent_id" field; "table": the JSON object {columns, data}; "list": a JSON array
\* of row objects; "text": a body that is not JSON.
NoBody == [kind |-> "none", error |-> None, agent_id |-> None]

Bodies ==
    {[kind |-> "obj", error |-> ServerError, agent_id |-> None]}
    \cup {[kind |-> "obj", error |-> None, agent_id |-> a] : a \in AgentIds \cup {None}}
    \cup {[kind |-> k, error |-> None, agent_id |-> None] : k \in {"table", "list", "text"}}

NoResp == [status |-> 0, body |-> NoBody]

Replies == [status : Statuses, body : Bodies]

Paths == {"agent.py", "sub/util.py", "missing.py"}

ExistingPaths == {"agent.py", "sub/util.py"}

\* A variant of isfile that never looks at the file system.
AlwaysFile(path) == TRUE

\* os.path.isfile(path).  A path it accepts opens: open() itself is not made to fail.
isfile(path) == path \in ExistingPaths

\* os.path.basename(path), on the paths above
basename(path) == IF path = "sub/util.py" THEN "util.py" ELSE path

-----------------------------------------------------------------------------
(* What an operation gives its caller: a return value or an exception *)

\* msg is the fixed text of an exception's message, detail the string put into it,
\* raw the reply body whose text (resp.text) was put into it.
NoResult ==
    [kind |-> "none", exc |-> None, msg |-> None, detail |-> None, raw |-> NoBody,
     value |-> NoBody]

Raise(exc, msg, detail) ==
    [kind |-> "raise", exc |-> exc, msg |-> msg, detail |-> detail, raw |-> NoBody,
     value |-> NoBody]

RaiseRaw(exc, msg, body) ==
    [kind |-> "raise", exc |-> exc, msg |-> msg, detail |-> None, raw |-> body,
     value |-> NoBody]

Return(v) ==
    [kind |-> "return", exc |-> None, msg |-> None, detail |-> None, raw |-> NoBody,
     value |-> v]

\* An HTTP request.  auth is <<key_id, key_pass>> of the Authorization header, or <<>>.
NoCall ==
    [method |-> "none", base |-> <<>>, path |-> None, param |-> None, auth |-> <<>>,
     nfiles |-> 0, agent_name |-> None]

\* MLArenaClient._headers
headers(id, pass) == <<id, pass>>

\* requests.post / requests.get on MLArenaClient._url(path + param)
Request(method, base, path, param, auth, nfiles, name) ==
    [method |-> method, base |-> base, path |-> path, param |-> param, auth |-> auth,
     nfiles |-> nfiles, agent_name |-> name]

-----------------------------------------------------------------------------
(* Response handling: MLArenaClient._handle_response and its callers *)

InvalidCredsMsg == "Invalid API credentials. Check your key_id and key_pass."

\* raise exc(resp.json().get("error", default)): resp.json() raises on a body that
\* is not JSON, and a JSON array has no .get.
RaiseJsonError(body, exc, default) ==
    IF body.kind = "text" THEN Raise("JSONDecodeError", None, None)
    ELSE IF body.kind = "list" THEN Raise("AttributeError", None, None)
    ELSE Raise(exc, "", IF body.error # None THEN body.error ELSE default)

\* _handle_response(resp): NoResult when it returns resp, else what it raises.
handle_response(r) ==
    IF r.status = 401 THEN Raise("AuthenticationError", InvalidCredsMsg, None)
    ELSE IF r.status = 403
         THEN RaiseJsonError(r.body, "AuthenticationError", "Access denied")
         ELSE IF r.status = 404
              THEN RaiseJsonError(r.body, "CompetitionNotFoundError", "Not found")
              ELSE NoResult

\* requests.Response.raise_for_status
raise_for_status(r) ==
    IF r.status >= 400 /\ r.status < 600 THEN Raise("HTTPError", None, None) ELSE NoResult

\* resp.json(), returned to the caller
ReturnJson(body) ==
    IF body.kind = "text" THEN Raise("JSONDecodeError", None, None) ELSE Return(body)

SuccessStatuses == {200, 201, 202}

\* submit(), from the reply to its outcome (client.py 87-96).
submit_response(r) ==
    LET h == handle_response(r)
    IN  IF h.kind = "raise" THEN h
        ELSE IF r.status \notin SuccessStatuses
             THEN IF r.body.kind = "text" THEN Raise("JSONDecodeError", None, None)
                  ELSE IF r.body.kind = "list" THEN Raise("AttributeError", None, None)
                  ELSE IF r.body.error # None
                       THEN Raise("SubmissionError", "Submission failed: ", r.body.error)
                       ELSE RaiseRaw("SubmissionError", "Submission failed: ", r.body)
             ELSE IF r.body.kind = "text" THEN Raise("JSONDecodeError", None, None)
                  ELSE IF r.body.kind = "list" THEN Raise("AttributeError", None, None)
                  ELSE Return(r.body)

-----------------------------------------------------------------------------
(* Tabular conversion: _to_dataframe *)

ColNames == {"name", "score"}

Vals == {"x", "y"}

\* A decoded JSON value as _to_dataframe sees it.  kind "dict": a JSON object, with
\* has_columns/has_data telling whether it holds the keys "columns" and "data";
\* kind "list": a JSON array (rows); kind "other": any other JSON value.
JsonDict(hc, hd, cols, data) ==
    [kind |-> "dict", has_columns |-> hc, has_data |-> hd, columns |-> cols,
     data |-> data, rows |-> <<>>]

JsonList(rows) ==
    [kind |-> "list", has_columns |-> FALSE, has_data |-> FALSE, columns |-> <<>>,
     data |-> <<>>, rows |-> rows]

JsonOther ==
    [kind |-> "other", has_columns |-> FALSE, has_data |-> FALSE, columns |-> <<>>,
     data |-> <<>>, rows |-> <<>>]

\* A Python dict with string keys: a function from its keys.
EmptyDict == [c \in {} |-> ""]

\* d[k] = v
SetItem(d, k, v) == [c \in DOMAIN d \cup {k} |-> IF c = k THEN v ELSE d[c]]

\* d.setdefault(k, v)
SetDefault(d, k, v) == [c \in DOMAIN d \cup {k} |-> IF c \in DOMAIN d THEN d[c] ELSE v]

\* A variant of the insertion in which the first value of a repeated key stays.
RECURSIVE zipFirstWins(_, _, _, _)
zipFirstWins(cols, row, j, d) ==
    IF j > Min(Len(cols), Len(row)) THEN d
    ELSE zipFirstWins(cols, row, j + 1, SetDefault(d, cols[j], row[j]))

\* dict(zip(columns, row)): the pairs up to the shorter length, inserted left to right.
RECURSIVE zipInto(_, _, _, _)
zipInto(cols, row, j, d) ==
    IF j > Min(Len(cols), Len(row)) THEN d
    ELSE zipInto(cols, row, j + 1, SetItem(d, cols[j], row[j]))

\* A variant of dict_zip built on zipFirstWins.
dict_zip_first(cols, row) == zipFirstWins(cols, row, 1, EmptyDict)

dict_zip(cols, row) == zipInto(cols, row, 1, EmptyDict)

\* What _to_dataframe returns: the rows in a pandas.DataFrame or in a list, or the
\* value it was given (container "same").
Rows(pandas, rows) ==
    [container |-> IF pandas THEN "DataFrame" ELSE "list", rows |-> rows,
     data |-> JsonOther]

to_dataframe(data, pandas) ==
    IF data.kind = "dict" /\ data.has_columns /\ data.has_data
    THEN Rows(pandas, [i \in 1..Len(data.data) |-> dict_zip(data.columns, data.data[i])])
    ELSE IF data.kind = "list"
         THEN Rows(pandas, data.rows)
         ELSE [container |-> "same", rows |-> <<>>, data |-> data]

NoTab == [container |-> "none", rows |-> <<>>, data |-> JsonOther]

\* The inputs tried: every table of at most MaxCols columns and MaxRows rows (rows of
\* any length up to MaxCols, column names possibly repeated), objects lacking one of
\* the two keys, every list of at most MaxRows row mappings, and a non-tabular value.
TableRows == SeqsUpTo(Vals, MaxCols)

RowDicts == UNION {[D -> Vals] : D \in SUBSET ColNames}

TabInputs ==
    {JsonDict(TRUE, TRUE, c, d) :
        c \in SeqsUpTo(ColNames, MaxCols), d \in SeqsUpTo(TableRows, MaxRows)}
    \cup {JsonDict(TRUE, FALSE, <<"name">>, <<>>), JsonDict(FALSE, TRUE, <<>>, <<<<"x">>>>),
          JsonDict(FALSE, FALSE, <<>>, <<>>), JsonOther}
    \cup {JsonList(r) : r \in SeqsUpTo(RowDicts, MaxRows)}

\* resp.json() of a reply body, as _to_dataframe sees it.
LeaderTable == JsonDict(TRUE, TRUE, <<"name", "score">>, <<<<"x", "1">>, <<"y", "2">>>>)

LeaderList == JsonList(<<[name |-> "x", score |-> "1"], [name |-> "y", score |-> "2"]>>)

JsonOf(body) ==
    IF body.kind = "table" THEN LeaderTable
    ELSE IF body.kind = "list" THEN LeaderList
    ELSE JsonDict(FALSE, FALSE, <<>>, <<>>)

\* _to_dataframe(resp.json())
ReturnTable(body, pandas) ==
    IF body.kind = "text" THEN Raise("JSONDecodeError", None, None)
    ELSE Return(to_dataframe(JsonOf(body), pandas))

-----------------------------------------------------------------------------
(* submit(): arguments, staging and cleanup *)

\* The files= argument: Python None, or a list of paths.
NoFiles == [none |-> TRUE, list |-> <<>>]

FileList(l) == [none |-> FALSE, list |-> l]

FilesArgs == {NoFiles} \cup {FileList(l) : l \in SeqsUpTo(Paths, MaxFiles)}

AgentArgs == {None, "Agent"}        \* agent=: None or a class

AgentNames == {None, "bot"}

EitherMsg == "Provide either agent= (a class) or files= (list of paths)"

NotBothMsg == "Provide either agent= or files=, not both"

\* A variant of the argument check that lacks the "not both" test.
arg_check_neither_only(a, f) ==
    IF a = None /\ f.none THEN Raise("SubmissionError", EitherMsg, None) ELSE NoResult

\* submit(), the argument check (client.py 52-55): NoResult when it passes.
arg_check(a, f) ==
    IF a = None /\ f.none THEN Raise("SubmissionError", EitherMsg, None)
    ELSE IF a # None /\ ~f.none THEN Raise("SubmissionError", NotBothMsg, None)
         ELSE NoResult

\* open(path, "rb"): one more open handle, never yet closed.
OpenHandle(hs) == Append(hs, [open |-> TRUE, closes |-> 0])

\* `with open(tmp_path, "w") as f: f.write(source)`: a handle opened and closed.
WrittenHandle(hs) == Append(hs, [open |-> FALSE, closes |-> 1])

\* tempfile.mkdtemp()
MakeDir(ds) == Append(ds, [live |-> TRUE, removes |-> 0])

\* A variant of the cleanup loop that stops after the first staged pair.
close_first_only(mf, hs) ==
    [h \in DOMAIN hs |->
        IF mf # <<>> /\ mf[1].handle = h
        THEN [open |-> FALSE, closes |-> hs[h].closes + 1]
        ELSE hs[h]]

\* The finally clause, first half: file_tuple[1].close() for every staged pair.
close_all(mf, hs) ==
    [h \in DOMAIN hs |->
        IF \E i \in DOMAIN mf : mf[i].handle = h
        THEN [open |-> FALSE,
              closes |-> hs[h].closes + Cardinality({i \in DOMAIN mf : mf[i].handle = h})]
        ELSE hs[h]]

\* The finally clause, second half: shutil.rmtree(tmp_dir) if tmp_dir is set.
rmtree(dir, ds) ==
    IF dir # None
    THEN [d \in DOMAIN ds |-> [live |-> FALSE, removes |-> ds[d].removes + 1]]
    ELSE ds

\* A variant that records the defaults whatever the outcome of the reply.
session_always(out, comp, cur) ==
    [agent_id |-> out.value.agent_id, competition |-> comp]

\* The session defaults after the reply was handled (client.py 93-95): set when
\* submit() is about to return the decoded body, else left as they are.
session_after(out, comp, cur) ==
    IF out.kind = "return"
    THEN [agent_id |-> out.value.agent_id, competition |-> comp]
    ELSE cur

\* A variant of the default that ignores the recorded agent.
status_arg_only(arg, last) == arg

\* `agent_id or self._last_agent_id` (client.py 115)
status_default(arg, last) == Or(arg, last)

\* `competition or self._last_competition` (client.py 138)
leaderboard_default(arg, last) == Or(arg, last)

NoAgentMsg == "No agent_id provided and no previous submission found"

NoCompetitionMsg == "No competition specified and no previous submission found"

\* status() and leaderboard(), from the reply to the outcome.
status_response(r) ==
    LET h == handle_response(r)
    IN  IF h.kind = "raise" THEN h
        ELSE IF raise_for_status(r).kind = "raise" THEN raise_for_status(r)
             ELSE ReturnJson(r.body)

leaderboard_response(r, pandas) ==
    LET h == handle_response(r)
    IN  IF h.kind = "raise" THEN h
        ELSE IF raise_for_status(r).kind = "raise" THEN raise_for_status(r)
             ELSE ReturnTable(r.body, pandas)

\* competitions(): no _handle_response, only raise_for_status.
competitions_response(r, pandas) ==
    IF raise_for_status(r).kind = "raise" THEN raise_for_status(r)
    ELSE ReturnTable(r.body, pandas)

\* A request that never got a reply: requests raises its own exception.
TransportError == Raise("ConnectionError", None, None)

-----------------------------------------------------------------------------
(* The state machine *)

NoOp == [op |-> "none", arg |-> None, agent_given |-> FALSE, files_given |-> FALSE]

Op(name, arg, a, f) == [op |-> name, arg |-> arg, agent_given |-> a, files_given |-> f]

NoSubmit == [any |-> FALSE, competition |-> None, agent_id |-> None]

Init ==
    /\ connected = FALSE
    /\ api_key = NoKey
    /\ key_id = <<>>
    /\ key_pass = <<>>
    /\ base_url = <<>>
    /\ last_agent_id = None
    /\ last_competition = None
    /\ pc = "idle"
    /\ competition = None
    /\ agent = None
    /\ files = NoFiles
    /\ agent_name = None
    /\ multipart_files = <<>>
    /\ tmp_dir = None
    /\ pending = NoResult
    /\ handles = <<>>
    /\ dirs = <<>>
    /\ lastOp = NoOp
    /\ lastCall = NoCall
    /\ resp = NoResp
    /\ lastResult = NoResult
    /\ okSubmit = NoSubmit
    /\ tab_in = JsonOther
    /\ tab_out = NoTab

\* mlarena.connect(api_key, base_url)
Connect(k, url) ==
    /\ ~connected
    /\ pc = "idle"
    /\ LET c == connect(k, url)
       IN  /\ connected' = c.ok
           /\ api_key' = k
           /\ key_id' = c.key_id
           /\ key_pass' = c.key_pass
           /\ base_url' = c.base_url
           /\ lastResult' = IF c.ok THEN Return(NoBody)
                            ELSE Raise("AuthenticationError", c.msg, None)
    /\ lastOp' = Op("connect", None, FALSE, FALSE)
    /\ lastCall' = NoCall
    /\ resp' = NoResp
    /\ UNCHANGED <<sessionVars, submitVars, resourceVars, okSubmit, tabVars>>

\* submit(competition, agent, files, agent_name): entry and the argument check.
SubmitCall(c, a, f, n) ==
    /\ connected
    /\ pc = "idle"
    /\ lastOp' = Op("submit", c, a # None, ~f.none)
    /\ lastCall' = NoCall
    /\ resp' = NoResp
    /\ handles' = <<>>
    /\ dirs' = <<>>
    /\ IF arg_check(a, f).kind = "raise"
       THEN /\ lastResult' = arg_check(a, f)
            /\ UNCHANGED submitVars
       ELSE /\ lastResult' = NoResult
            /\ pc' = IF a = None /\ f.list = <<>> THEN "post" ELSE "stage"
            /\ competition' = c
            /\ agent' = a
            /\ files' = f
            /\ agent_name' = n
            /\ multipart_files' = <<>>
            /\ tmp_dir' = None
            /\ pending' = NoResult
    /\ UNCHANGED <<clientVars, sessionVars, okSubmit, tabVars>>

\* submit(), the agent= branch (client.py 61-67).  inspect.getsource may raise (the
\* class has no source file), and so may writing the temporary file.
StageAgent(outcome) ==
    /\ pc = "stage"
    /\ agent # None
    /\ IF outcome = "no_source"
       THEN /\ pending' = Raise("OSError", None, None)
            /\ pc' = "finally"
            /\ UNCHANGED <<tmp_dir, dirs, handles, multipart_files>>
       ELSE IF outcome = "write_fails"
            THEN /\ tmp_dir' = "tmp"
                 /\ dirs' = MakeDir(dirs)
                 /\ pending' = Raise("OSError", None, None)
                 /\ pc' = "finally"
                 /\ UNCHANGED <<handles, multipart_files>>
            ELSE /\ tmp_dir' = "tmp"
                 /\ dirs' = MakeDir(dirs)
                 /\ handles' = OpenHandle(WrittenHandle(handles))
                 /\ multipart_files' =
                        Append(multipart_files,
                               [filename |-> "agent.py", handle |-> Len(handles) + 2])
                 /\ pc' = "post"
                 /\ UNCHANGED pending
    /\ UNCHANGED <<clientVars, sessionVars, competition, agent, files, agent_name,
                   lastOp, lastCall, resp, lastResult, okSubmit, tabVars>>

\* submit(), one iteration of `for path in files` (client.py 69-73).
StageFile ==
    /\ pc = "stage"
    /\ agent = None
    /\ Len(multipart_files) < Len(files.list)
    /\ LET path == files.list[Len(multipart_files) + 1]
       IN  IF ~isfile(path)
           THEN /\ pending' = Raise("SubmissionError", "File not found: ", path)
                /\ pc' = "finally"
                /\ UNCHANGED <<handles, multipart_files>>
           ELSE /\ handles' = OpenHandle(handles)
                /\ multipart_files' =
                       Append(multipart_files,
                              [filename |-> basename(path), handle |-> Len(handles) + 1])
                /\ pc' = IF Len(multipart_files) + 1 = Len(files.list)
                         THEN "post" ELSE "stage"
                /\ UNCHANGED pending
    /\ UNCHANGED <<clientVars, sessionVars, competition, agent, files, agent_name,
                   tmp_dir, dirs, lastOp, lastCall, resp, lastResult, okSubmit, tabVars>>

\* The POST of submit().
SubmitRequest ==
    Request("POST", base_url, "/submit/", competition, headers(key_id, key_pass),
            Len(multipart_files), IF Truthy(agent_name) THEN agent_name ELSE None)

\* submit(): requests.post raises (client.py 79-85).
PostFails ==
    /\ pc = "post"
    /\ lastCall' = SubmitRequest
    /\ pending' = TransportError
    /\ pc' = "finally"
    /\ UNCHANGED <<clientVars, sessionVars, competition, agent, files, agent_name,
                   multipart_files, tmp_dir, resourceVars, lastOp, resp, lastResult,
                   okSubmit, tabVars>>

\* submit(): the POST and the handling of its reply (client.py 79-96).
Post(r) ==
    /\ pc = "post"
    /\ lastCall' = SubmitRequest
    /\ resp' = r
    /\ pending' = submit_response(r)
    /\ LET s == session_after(submit_response(r), competition,
                              [agent_id |-> last_agent_id,
                               competition |-> last_competition])
       IN  /\ last_agent_id' = s.agent_id
           /\ last_competition' = s.competition
    /\ pc' = "finally"
    /\ UNCHANGED <<clientVars, competition, agent, files, agent_name, multipart_files,
                   tmp_dir, resourceVars, lastOp, lastResult, okSubmit, tabVars>>

\* submit(): the finally clause (client.py 98-103), then the return or the raise.
Finally ==
    /\ pc = "finally"
    /\ handles' = close_all(multipart_files, handles)
    /\ dirs' = rmtree(tmp_dir, dirs)
    /\ lastResult' = pending
    /\ okSubmit' = IF pending.kind = "return"
                   THEN [any |-> TRUE, competition |-> competition,
                         agent_id |-> pending.value.agent_id]
                   ELSE okSubmit
    /\ pc' = "idle"
    /\ competition' = None
    /\ agent' = None
    /\ files' = NoFiles
    /\ agent_name' = None
    /\ multipart_files' = <<>>
    /\ tmp_dir' = None
    /\ pending' = NoResult
    /\ UNCHANGED <<clientVars, sessionVars, lastOp, lastCall, resp, tabVars>>

StatusArgs == {None, "", "A2"}      \* the agent_id argument of status()

LeaderboardArgs == {None, "", "comp2"}

\* An outcome of a request: a reply, or no reply at all.
Outcomes == Replies \cup {NoResp}

\* status(agent_id) (client.py 115-126)
Status(arg, r) ==
    /\ connected
    /\ pc = "idle"
    /\ lastOp' = Op("status", arg, FALSE, FALSE)
    /\ LET id == status_default(arg, last_agent_id)
       IN  IF id = None
           THEN /\ r = NoResp
                /\ lastCall' = NoCall
                /\ resp' = NoResp
                /\ lastResult' = Raise("SubmissionError", NoAgentMsg, None)
           ELSE /\ lastCall' = Request("GET", base_url, "/status/", id,
                                       headers(key_id, key_pass), 0, None)
                /\ resp' = r
                /\ lastResult' = IF r = NoResp THEN TransportError ELSE status_response(r)
    /\ handles' = <<>>
    /\ dirs' = <<>>
    /\ UNCHANGED <<clientVars, sessionVars, submitVars, okSubmit, tabVars>>

\* leaderboard(competition) (client.py 138-149)
Leaderboard(arg, r, pandas) ==
    /\ connected
    /\ pc = "idle"
    /\ lastOp' = Op("leaderboard", arg, FALSE, FALSE)
    /\ LET c == leaderboard_default(arg, last_competition)
       IN  IF c = None
           THEN /\ r = NoResp
                /\ lastCall' = NoCall
                /\ resp' = NoResp
                /\ lastResult' = Raise("SubmissionError", NoCompetitionMsg, None)
           ELSE /\ lastCall' = Request("GET", base_url, "/leaderboard/", c, <<>>, 0, None)
                /\ resp' = r
                /\ lastResult' = IF r = NoResp THEN TransportError
                                 ELSE leaderboard_response(r, pandas)
    /\ handles' = <<>>
    /\ dirs' = <<>>
    /\ UNCHANGED <<clientVars, sessionVars, submitVars, okSubmit, tabVars>>

\* competitions() (client.py 158-164)
ListCompetitions(r, pandas) ==
    /\ connected
    /\ pc = "idle"
    /\ lastOp' = Op("competitions", None, FALSE, FALSE)
    /\ lastCall' = Request("GET", base_url, "/competitions", None, <<>>, 0, None)
    /\ resp' = r
    /\ lastResult' = IF r = NoResp THEN TransportError ELSE competitions_response(r, pandas)
    /\ handles' = <<>>
    /\ dirs' = <<>>
    /\ UNCHANGED <<clientVars, sessionVars, submitVars, okSubmit, tabVars>>

Next ==
    \/ \E k \in SessionKeys, url \in BaseUrls : Connect(k, url)
    \/ \E c \in Competitions, a \in AgentArgs, f \in FilesArgs, n \in AgentNames :
          SubmitCall(c, a, f, n)
    \/ \E o \in {"no_source", "write_fails", "ok"} : StageAgent(o)
    \/ StageFile
    \/ PostFails
    \/ \E r \in Replies : Post(r)
    \/ Finally
    \/ \E arg \in StatusArgs, r \in Outcomes : Status(arg, r)
    \/ \E arg \in LeaderboardArgs, r \in Outcomes, p \in BOOLEAN : Leaderboard(arg, r, p)
    \/ \E r \in Outcomes, p \in BOOLEAN : ListCompetitions(r, p)

Spec == Init /\ [][Next]_vars

-----------------------------------------------------------------------------
(* connect() on every credential string tried, each followed by a short session *)

GoodReply == [status |-> 201, body |-> [kind |-> "obj", error |-> None, agent_id |-> "A1"]]

BadReply == [status |-> 404, body |-> [kind |-> "obj", error |-> ServerError, agent_id |-> None]]

NextKeys ==
    \/ \E k \in ApiKeys, url \in BaseUrls : Connect(k, url)
    \/ \E a \in AgentArgs : SubmitCall("comp1", a, FileList(<<"agent.py">>), None)
    \/ SubmitCall("comp1", None, FileList(<<"missing.py">>), "bot")
    \/ StageFile
    \/ \E r \in {GoodReply, BadReply} : Post(r)
    \/ Finally
    \/ \E r \in {GoodReply, BadReply, NoResp} : Status(None, r)
    \/ \E r \in {GoodReply, NoResp} : Leaderboard(None, r, FALSE)
    \/ ListCompetitions(BadReply, TRUE)

SpecKeys == Init /\ [][NextKeys]_vars

-----------------------------------------------------------------------------
(* Tabular conversion on its own: _to_dataframe applied to every input tried *)

InitTab ==
    /\ connected = FALSE
    /\ api_key = NoKey
    /\ key_id = <<>>
    /\ key_pass = <<>>
    /\ base_url = <<>>
    /\ last_agent_id = None
    /\ last_competition = None
    /\ pc = "idle"
    /\ competition = None
    /\ agent = None
    /\ files = NoFiles
    /\ agent_name = None
    /\ multipart_files = <<>>
    /\ tmp_dir = None
    /\ pending = NoResult
    /\ handles = <<>>
    /\ dirs = <<>>
    /\ lastOp = NoOp
    /\ lastCall = NoCall
    /\ resp = NoResp
    /\ lastResult = NoResult
    /\ okSubmit = NoSubmit
    /\ tab_in \in TabInputs
    /\ tab_out = NoTab

\* _to_dataframe(data), with pandas importable or not
Convert(pandas) ==
    /\ tab_out = NoTab
    /\ tab_out' = to_dataframe(tab_in, pandas)
    /\ UNCHANGED <<tab_in, clientVars, sessionVars, submitVars, resourceVars, lastOp,
                   lastCall, resp, lastResult, okSubmit>>

NextTab == \E p \in BOOLEAN : Convert(p)

SpecTab == InitTab /\ [][NextTab]_vars

-----------------------------------------------------------------------------
(* Properties *)

\* A credential string is well formed when its first ':' has a character before it
\* and a character after it.
WellFormed(k) ==
    /\ ~k.none
    /\ \E i \in 2..(Len(k.s) - 1) : k.s[i] = ":" /\ \A j \in 1..(i - 1) : k.s[j] # ":"

\* C1: once connect() has been called, a missing or malformed credential string has
\* raised AuthenticationError and left no client; a well-formed one has given a client
\* whose key_id is the text before the first ':' and whose key_pass is all the text
\* after it, and every later operation leaves them so.
C1_ConnectParsesCredentials ==
    lastOp.op # "none" =>
        IF WellFormed(api_key)
        THEN /\ connected
             /\ key_id \o <<":">> \o key_pass = api_key.s
             /\ \A i \in 1..Len(key_id) : key_id[i] # ":"
        ELSE /\ ~connected
             /\ key_id = <<>> /\ key_pass = <<>>
             /\ lastOp.op = "connect"
             /\ lastResult.kind = "raise"
             /\ lastResult.exc = "AuthenticationError"

\* A client made from "k::" (key_pass is ":") after a later status() call.
C1_Witness ==
    /\ connected
    /\ api_key.s = <<"k", ":", ":">>
    /\ key_pass = <<":">>
    /\ lastOp.op = "status"

\* C2: a submit() call given both agent and files, or neither, raises SubmissionError
\* at once: no request is issued, no file opened, no directory made, and
\* last_agent_id and last_competition keep their values.
C2_BadArgumentsFailEarly ==
    [][(pc = "idle" /\ lastOp'.op = "submit"
            /\ lastOp'.agent_given = lastOp'.files_given)
        => /\ pc' = "idle"
           /\ lastResult'.kind = "raise"
           /\ lastResult'.exc = "SubmissionError"
           /\ lastCall' = NoCall
           /\ resp' = NoResp
           /\ handles' = <<>>
           /\ dirs' = <<>>
           /\ last_agent_id' = last_agent_id
           /\ last_competition' = last_competition]_vars

\* submit(agent=..., files=[...]) refused on a client that has already submitted.
C2_Witness ==
    /\ pc = "idle"
    /\ lastOp.op = "submit"
    /\ lastOp.agent_given /\ lastOp.files_given
    /\ lastResult.exc = "SubmissionError"
    /\ last_agent_id = "A1"

HasMissing(l) == \E i \in 1..Len(l) : l[i] \notin ExistingPaths

FirstMissing(l) ==
    l[CHOOSE i \in 1..Len(l) :
        l[i] \notin ExistingPaths /\ \A j \in 1..(i - 1) : l[j] \in ExistingPaths]

\* C3: while submit(files=[..]) runs on a list holding a path that does not exist, no
\* request is ever issued, and the call ends with SubmissionError naming the first
\* such path of the list.
C3_MissingFileFailsBeforePost ==
    [][(pc # "idle" /\ agent = None /\ HasMissing(files.list))
        => /\ lastCall' = NoCall
           /\ pc' # "post"
           /\ (pc' = "idle" =>
                 lastResult' = Raise("SubmissionError", "File not found: ",
                                     FirstMissing(files.list)))]_vars

\* The missing path is second in the list, after one file was opened.
C3_Witness ==
    /\ pc = "finally"
    /\ Len(files.list) = 2
    /\ files.list[2] = "missing.py"
    /\ Len(multipart_files) = 1
    /\ pending.exc = "SubmissionError"
    /\ pending.detail = "missing.py"

Operations == {"submit", "status", "leaderboard", "competitions"}

\* The exception carries the reply's "error" field when the reply has one.
CarriesServerMessage(res, body) == body.error # None => res.detail = body.error

\* C4: every operation that got a reply with status 404 raised
\* CompetitionNotFoundError carrying the server's error message.
C4_Every404IsCompetitionNotFound ==
    (pc = "idle" /\ lastOp.op \in Operations /\ resp.status = 404)
        => /\ lastResult.kind = "raise"
           /\ lastResult.exc = "CompetitionNotFoundError"
           /\ CarriesServerMessage(lastResult, resp.body)

\* C5: a submit() that returns gives back the reply's body and records its agent_id;
\* status() with no argument issues GET /status/{id} with the agent_id of the last
\* submit() that returned, whatever was called since, and raises SubmissionError
\* without a request exactly when there is no such agent_id.
C5_StatusDefaultsToLastSubmitted ==
    /\ (pc = "idle" /\ lastOp.op = "submit" /\ lastResult.kind = "return")
          => /\ lastResult.value = resp.body
             /\ last_agent_id = resp.body.agent_id
             /\ okSubmit.agent_id = resp.body.agent_id
    /\ (pc = "idle" /\ lastOp.op = "status" /\ lastOp.arg = None)
          => IF okSubmit.agent_id = None
             THEN /\ lastResult = Raise("SubmissionError", NoAgentMsg, None)
                  /\ lastCall = NoCall
             ELSE /\ lastCall.method = "GET"
                  /\ lastCall.path = "/status/"
                  /\ lastCall.param = okSubmit.agent_id
                  /\ lastResult.exc # "SubmissionError"

\* status() with no argument asked for the agent a submit to comp2 returned, after a
\* reply to it that was an error.
C5_Witness ==
    /\ pc = "idle"
    /\ lastOp.op = "status"
    /\ lastOp.arg = None
    /\ lastCall.param = "A1"
    /\ okSubmit.competition = "comp2"
    /\ resp.status = 500

\* C6: between calls last_competition is the competition of the last submit() that
\* returned (None before the first); leaderboard() with no argument targets
\* /leaderboard/{that competition}, and raises SubmissionError without a request
\* when no submit() has returned yet.
C6_LeaderboardDefaultsToLastCompetition ==
    pc = "idle" =>
        /\ last_competition = okSubmit.competition
        /\ (lastOp.op = "leaderboard" /\ lastOp.arg = None)
              => IF ~okSubmit.any
                 THEN /\ lastResult = Raise("SubmissionError", NoCompetitionMsg, None)
                      /\ lastCall = NoCall
                 ELSE /\ lastCall.method = "GET"
                      /\ lastCall.path = "/leaderboard/"
                      /\ lastCall.param = okSubmit.competition

\* leaderboard() with no argument targeted comp1 and got a table back.
C6_Witness ==
    /\ pc = "idle"
    /\ lastOp.op = "leaderboard"
    /\ lastOp.arg = None
    /\ lastCall.param = "comp1"
    /\ last_competition = "comp1"
    /\ lastResult.kind = "return"
    /\ lastResult.value.container = "list"

\* C7: no handle is ever closed twice and no directory removed twice, and once
\* submit() has returned or raised, every handle it opened is closed, exactly once,
\* and the directory it made is removed, exactly once.
C7_ResourcesReleasedOnce ==
    /\ \A h \in DOMAIN handles : handles[h].closes <= 1
    /\ \A d \in DOMAIN dirs : dirs[d].removes <= 1
    /\ pc = "idle" =>
          /\ \A h \in DOMAIN handles : ~handles[h].open /\ handles[h].closes = 1
          /\ \A d \in DOMAIN dirs : ~dirs[d].live /\ dirs[d].removes = 1

\* Two files were opened and the POST got no reply.
C7_Witness ==
    /\ pc = "idle"
    /\ lastOp.op = "submit"
    /\ Len(handles) = 2
    /\ dirs = <<>>
    /\ lastResult = TransportError

\* C8: the outcome of a submit() that got a reply, by the reply's status: 401 and 403
\* raise AuthenticationError, 404 raises CompetitionNotFoundError, 403 and 404 with
\* the server's message; any other status outside 200/201/202 raises SubmissionError
\* with the server's error field or the raw body; only 200/201/202 return, and they
\* return the decoded body and record the session defaults.
C8_SubmitStatusMapping ==
    (pc = "idle" /\ lastOp.op = "submit" /\ resp # NoResp)
        => IF resp.status = 401
           THEN lastResult.kind = "raise" /\ lastResult.exc = "AuthenticationError"
           ELSE IF resp.status = 403
           THEN /\ lastResult.kind = "raise"
                /\ lastResult.exc = "AuthenticationError"
                /\ CarriesServerMessage(lastResult, resp.body)
           ELSE IF resp.status = 404
           THEN /\ lastResult.kind = "raise"
                /\ lastResult.exc = "CompetitionNotFoundError"
                /\ CarriesServerMessage(lastResult, resp.body)
           ELSE IF resp.status \notin {200, 201, 202}
           THEN /\ lastResult.kind = "raise"
                /\ lastResult.exc = "SubmissionError"
                /\ IF resp.body.error # None
                   THEN lastResult.detail = resp.body.error
                   ELSE lastResult.raw = resp.body
           ELSE lastResult.kind = "return"
                   => /\ lastResult.value = resp.body
                      /\ last_agent_id = resp.body.agent_id
                      /\ last_competition = lastOp.arg

\* C10: a POST to /submit/{competition} is issued only with at least one staged file.
C10_PostNeedsAStagedFile ==
    lastCall.method = "POST" => lastCall.nfiles >= 1

IsTable(d) == d.kind = "dict" /\ d.has_columns /\ d.has_data

Wrapped(out) == out.container \in {"list", "DataFrame"}

Zipped(cols, r) == 1..Min(Len(cols), Len(r))

====
